---- MODULE Spec2Model ----
(***************************************************************************)
(* Model of the pymanifold Schematic class (src/src/pymanifold.py): the    *)
(* circuit graph built by port(), node() and channel(), and the            *)
(* compilation of that graph to a list of SMT constraints by               *)
(* translate_schematic()/solve().                                          *)
(*                                                                         *)
(* Python strings are sequences of one-character strings, so that          *)
(* str.lower(), '_'.join(...), name + '_attr' and the substring test       *)
(* `shape not in "rectangle"` are computed and not assumed.                *)
(* Python numbers are integers counted in units of 1/Scale, so that a      *)
(* value strictly between -1 and 0 exists.                                 *)
(***************************************************************************)
EXTENDS Integers, Sequences, FiniteSets, TLC

VARIABLES nodes, nodeOrder, edges, edgeOrder, exprs, runs, lastCall, work

vars == <<nodes, nodeOrder, edges, edgeOrder, exprs, runs, lastCall, work>>

----------------------------------------------------------------------------
(* Bounds of the model *)

\* numbers are counted in units of 1/Scale (Scale = 2: halves)
Scale == 2
\* at most this many nodes are created
MaxNodes == 3
\* at most this many channels are created
MaxChannels == 1
\* at most this many nodes and channels hold a numeric attribute that differs
\* from what a call without numeric arguments stores
MaxFixed == 1
\* at most this many translate_schematic()/solve() runs
MaxRuns == 2
\* at most this many channels join the parts of the T-junction schematic
MaxWires == 3
\* at most this many channels in the schematics that may hold a cycle
MaxLoop == 2
\* the widths, heights and flow rates that a droplet volume is evaluated at
\* are 1 .. MaxDim
MaxDim == 3
\* the nodes of a junction are placed at the points of the grid
\* (0 .. MaxCoord) x (0 .. MaxCoord)
MaxCoord == 2

----------------------------------------------------------------------------
(* Strings *)

S_input == <<"i","n","p","u","t">>
S_output == <<"o","u","t","p","u","t">>
S_Output == <<"O","u","t","p","u","t">>
S_tjunction == <<"t","-","j","u","n","c","t","i","o","n">>
S_rectangle == <<"r","e","c","t","a","n","g","l","e">>
S_rect == <<"r","e","c","t">>
S_circle == <<"c","i","r","c","l","e">>
S_node == <<"n","o","d","e">>
S_ep_cross == <<"e","p","_","c","r","o","s","s">>
S_empty == <<>>
S_None == <<"N","o","n","e">>
S_Continuous == <<"C","o","n","t","i","n","u","o","u","s">>
S_continuous == <<"c","o","n","t","i","n","u","o","u","s">>
S_dispersed == <<"d","i","s","p","e","r","s","e","d">>
S_epsilon == <<"e","p","s","i","l","o","n">>
S_a == <<"a">>
S_b == <<"b">>
S_a_b == <<"a","_","b">>
S_c == <<"c">>
S_d == <<"d">>
S_o == <<"o">>
S_j == <<"j">>
S_tjunc == <<"t","j","u","n","c">>

\* str.lower() on one character
LowerChar(c) ==
  CASE c = "C" -> "c"
    [] c = "N" -> "n"
    [] c = "O" -> "o"
    [] c = "I" -> "i"
    [] c = "X" -> "x"
    [] c = "Y" -> "y"
    [] c = "D" -> "d"
    [] OTHER -> c

\* str.lower()
Lower(s) == [i \in 1..Len(s) |-> LowerChar(s[i])]

\* `s in t` for two Python strings: s occurs in t as a contiguous substring
StrIn(s, t) ==
  \E i \in 0..(Len(t) - Len(s)) : SubSeq(t, i + 1, i + Len(s)) = s

\* '_'.join([a, b, c])
Join3(a, b, c) == a \o <<"_">> \o b \o <<"_">> \o c

\* name + '_attr'
Suffix(name, attr) == name \o <<"_">> \o attr

----------------------------------------------------------------------------
(* pysmt terms: a symbol is identified by its name *)

Symbol(name) == [op |-> "Symbol", name |-> name, val |-> 0, args |-> <<>>]
Real(v) == [op |-> "Real", name |-> <<>>, val |-> v, args |-> <<>>]
\* a real constant that is no multiple of 1/Scale, by the text of its source
RealC(text) == [op |-> "RealC", name |-> <<text>>, val |-> 0, args |-> <<>>]
App(o, as) == [op |-> o, name |-> <<>>, val |-> 0, args |-> as]
Equals(l, r) == App("Equals", <<l, r>>)
GE(l, r) == App("GE", <<l, r>>)
GT(l, r) == App("GT", <<l, r>>)
LE(l, r) == App("LE", <<l, r>>)
LT(l, r) == App("LT", <<l, r>>)
Plus(l, r) == App("Plus", <<l, r>>)
PlusN(as) == App("Plus", as)
Minus(l, r) == App("Minus", <<l, r>>)
Times(l, r) == App("Times", <<l, r>>)
Div(l, r) == App("Div", <<l, r>>)
Pow(l, r) == App("Pow", <<l, r>>)
\* And(exprs) of a list of formulas
And(as) == App("And", as)

----------------------------------------------------------------------------
(* Python values stored in the attribute dictionaries *)

PyNum(n) == [tag |-> "num", v |-> n]
PyFalse == [tag |-> "bool", v |-> 0]
\* the key is not in the dictionary
Absent == [tag |-> "absent", v |-> 0]
\* bool(value), as `if value:` computes it
Truthy(x) == x.v # 0

\* the numbers -1 and 1 in units of 1/Scale
Unset == 0 - Scale
One == Scale

----------------------------------------------------------------------------
(* Arguments of the construction calls *)

Names == {S_a, S_b}
PortKinds == {S_input, S_Output, S_node}
NodeKinds == {S_node, S_tjunction, S_rectangle, S_ep_cross}
Shapes == {S_rectangle, S_rect, S_empty, S_circle}
Phases == {S_None, S_Continuous}
\* -1.5, -0.5, 0 and 1 (Scale = 2): below the default -1, between it and 0,
\* zero, and positive
Values == {Unset - 1, 0 - 1, 0, One}

PortParams == {"min_pressure", "min_flow_rate", "x", "y", "density", "min_viscosity"}
NodeParams == {"x", "y"}
ChannelParams == {"min_length", "min_width", "min_height"}

\* the defaults of the signatures
PortDefaults == [p \in PortParams |-> IF p = "density" THEN One ELSE Unset]
NodeDefaults == [p \in NodeParams |-> Unset]
ChannelDefaults == [p \in ChannelParams |-> Unset]

\* a call leaves the numeric arguments out, or passes the same value for all;
\* for a port also: x alone is given
PortArgs ==
  {PortDefaults, [PortDefaults EXCEPT !["x"] = One]}
    \cup {[p \in PortParams |-> v] : v \in Values}
NodeArgs == {NodeDefaults} \cup {[p \in NodeParams |-> v] : v \in Values}
ChannelArgs == {ChannelDefaults} \cup {[p \in ChannelParams |-> v] : v \in Values}

\* the keys of self.translation_strats
StratKeys == {S_input, S_output, S_tjunction, S_rectangle}

\* valid_shapes = ("rectangle") is the string, not a tuple of strings
valid_shapes == S_rectangle

----------------------------------------------------------------------------
(* The graph: self.dg.  nodeOrder and edgeOrder are the insertion orders     *)
(* that the dictionaries of networkx iterate in.                             *)

\* no translate_schematic() is running
Idle == [on |-> FALSE, items |-> <<>>, rf |-> "zero"]

Init ==
  /\ nodes = <<>>
  /\ nodeOrder = <<>>
  /\ edges = <<>>
  /\ edgeOrder = <<>>
  /\ exprs = <<>>
  /\ runs = 0
  /\ lastCall = [err |-> "ok", res |-> "none", asked |-> <<>>]
  /\ work = Idle

\* dict insertion: `attr == -1` stores False in port() and node()
StoreNode(v) == IF v = Unset THEN PyFalse ELSE PyNum(v)
\* dict insertion: `attr == 0` stores False in channel()
StoreEdge(v) == IF v = 0 THEN PyFalse ELSE PyNum(v)

\* the `not_neg` loop of port() and node(): some listed value is < -1
NotNegRaises(a) == \E p \in DOMAIN a : a[p] < Unset

PortAttributes(name, kind, a) ==
  [kind |-> Lower(kind),
   viscosity |-> Symbol(Suffix(name, <<"v","i","s","c","o","s","i","t","y">>)),
   min_viscosity |-> StoreNode(a["min_viscosity"]),
   pressure |-> Symbol(Suffix(name, <<"p","r","e","s","s","u","r","e">>)),
   min_pressure |-> StoreNode(a["min_pressure"]),
   flow_rate |-> Symbol(Suffix(name, <<"f","l","o","w","_","r","a","t","e">>)),
   min_flow_rate |-> StoreNode(a["min_flow_rate"]),
   density |-> Symbol(Suffix(name, <<"d","e","n","s","i","t","y">>)),
   min_density |-> StoreNode(a["density"]),
   x |-> Symbol(Suffix(name, <<"X">>)),
   y |-> Symbol(Suffix(name, <<"Y">>)),
   min_x |-> StoreNode(a["x"]),
   min_y |-> StoreNode(a["y"])]

NodeAttributes(name, kind, a) ==
  [kind |-> Lower(kind),
   viscosity |-> Symbol(Suffix(name, <<"v","i","s","c","o","s","i","t","y">>)),
   min_viscosity |-> Absent,
   pressure |-> Symbol(Suffix(name, <<"p","r","e","s","s","u","r","e">>)),
   min_pressure |-> Absent,
   flow_rate |-> Symbol(Suffix(name, <<"f","l","o","w","_","r","a","t","e">>)),
   min_flow_rate |-> Absent,
   density |-> Symbol(Suffix(name, <<"d","e","n","s","i","t","y">>)),
   min_density |-> Absent,
   x |-> Symbol(Suffix(name, <<"X">>)),
   y |-> Symbol(Suffix(name, <<"Y">>)),
   min_x |-> StoreNode(a["x"]),
   min_y |-> StoreNode(a["y"])]

ChannelAttributes(port_from, port_to, shape, phase, a) ==
  [shape |-> shape,
   length |-> Symbol(Join3(port_from, port_to, <<"l","e","n","g","t","h">>)),
   min_length |-> StoreEdge(a["min_length"]),
   width |-> Symbol(Join3(port_from, port_to, <<"w","i","d","t","h">>)),
   min_width |-> StoreEdge(a["min_width"]),
   height |-> Symbol(Join3(port_from, port_to, <<"h","e","i","g","h","t">>)),
   min_height |-> StoreEdge(a["min_height"]),
   flow_rate |-> Symbol(Join3(port_from, port_to, <<"f","l","o","w","_","r","a","t","e">>)),
   droplet_volume |-> Symbol(Join3(port_from, port_to, <<"D","v","o","l">>)),
   viscosity |-> Symbol(Join3(port_from, port_to, <<"v","i","s","c","o","s","i","t","y">>)),
   resistance |-> Symbol(Join3(port_from, port_to, <<"r","e","s">>)),
   phase |-> Lower(phase)]

\* the graph as a value
Graph == [nodes |-> nodes, nodeOrder |-> nodeOrder, edges |-> edges,
          edgeOrder |-> edgeOrder]

\* a construction call raised: the exception, and the graph as the call left it
Raise(g, e) == [err |-> e, g |-> g]
\* a construction call returned
Return(g) == [err |-> "ok", g |-> g]

\* G.add_node(name) and the loop that stores the attributes
AddNode(g, name, r) ==
  [g EXCEPT !.nodes = [n \in DOMAIN g.nodes \cup {name} |->
                         IF n = name THEN r ELSE g.nodes[n]],
            !.nodeOrder = IF name \in DOMAIN g.nodes THEN @ ELSE Append(@, name)]

\* the attribute dictionary of a node that add_edge creates: it is empty
EmptyNode ==
  [kind |-> <<>>, viscosity |-> Absent, min_viscosity |-> Absent,
   pressure |-> Absent, min_pressure |-> Absent, flow_rate |-> Absent,
   min_flow_rate |-> Absent, density |-> Absent, min_density |-> Absent,
   x |-> Absent, y |-> Absent, min_x |-> Absent, min_y |-> Absent]

\* networkx add_edge(u, v): an endpoint that is no node yet becomes one
ImplicitNode(g, name) ==
  IF name \in DOMAIN g.nodes THEN g ELSE AddNode(g, name, EmptyNode)

\* G.add_edge(port_from, port_to) and the loop that stores the attributes
AddEdge(g, port_from, port_to, r) ==
  LET h == ImplicitNode(ImplicitNode(g, port_from), port_to) IN
  [h EXCEPT !.edges = [e \in DOMAIN h.edges \cup {<<port_from, port_to>>} |->
                         IF e = <<port_from, port_to>> THEN r ELSE h.edges[e]],
            !.edgeOrder = IF <<port_from, port_to>> \in DOMAIN h.edges
                          THEN @ ELSE Append(@, <<port_from, port_to>>)]

\* port() without its test `name in self.dg.nodes`
PortCall_NoNameCheck(g, name, kind, a) ==
  IF Lower(kind) \notin StratKeys THEN Raise(g, "InvalidKind")
  ELSE IF NotNegRaises(a) THEN Raise(g, "InvalidBound")
  ELSE Return(AddNode(g, name, PortAttributes(name, kind, a)))

\* Schematic.port on graph g
PortCall(g, name, kind, a) ==
  IF name \in DOMAIN g.nodes THEN Raise(g, "DuplicateIdentifier")
  ELSE IF Lower(kind) \notin StratKeys THEN Raise(g, "InvalidKind")
  ELSE IF NotNegRaises(a) THEN Raise(g, "InvalidBound")
  ELSE Return(AddNode(g, name, PortAttributes(name, kind, a)))

\* Schematic.node on graph g
NodeCall(g, name, kind, a) ==
  IF name \in DOMAIN g.nodes THEN Raise(g, "DuplicateIdentifier")
  ELSE IF Lower(kind) \notin StratKeys THEN Raise(g, "InvalidKind")
  ELSE IF NotNegRaises(a) THEN Raise(g, "InvalidBound")
  ELSE Return(AddNode(g, name, NodeAttributes(name, kind, a)))

\* channel() without its tests that port_from and port_to are nodes
ChannelCall_NoEndpointCheck(g, port_from, port_to, shape, phase, a) ==
  IF ~StrIn(shape, valid_shapes) THEN Raise(g, "InvalidShape")
  ELSE IF NotNegRaises(a) THEN Raise(g, "TypeError")
  ELSE IF <<port_from, port_to>> \in DOMAIN g.edges THEN Raise(g, "DuplicateChannel")
  ELSE Return(AddEdge(g, port_from, port_to,
                      ChannelAttributes(port_from, port_to, shape, phase, a)))

\* channel() without its test that the pair is already a channel
ChannelCall_NoDuplicateCheck(g, port_from, port_to, shape, phase, a) ==
  IF ~StrIn(shape, valid_shapes) THEN Raise(g, "InvalidShape")
  ELSE IF port_from \notin DOMAIN g.nodes THEN Raise(g, "UnknownEndpoint")
  ELSE IF port_to \notin DOMAIN g.nodes THEN Raise(g, "UnknownEndpoint")
  ELSE IF NotNegRaises(a) THEN Raise(g, "TypeError")
  ELSE Return(AddEdge(g, port_from, port_to,
                      ChannelAttributes(port_from, port_to, shape, phase, a)))

\* Schematic.channel on graph g.  In the not_neg loop the message's `% (param)`
\* has one argument for two %s, so the raise of ValueError is itself a
\* TypeError, which the loop catches and raises again as TypeError.
ChannelCall(g, port_from, port_to, shape, phase, a) ==
  IF ~StrIn(shape, valid_shapes) THEN Raise(g, "InvalidShape")
  ELSE IF port_from \notin DOMAIN g.nodes THEN Raise(g, "UnknownEndpoint")
  ELSE IF port_to \notin DOMAIN g.nodes THEN Raise(g, "UnknownEndpoint")
  ELSE IF NotNegRaises(a) THEN Raise(g, "TypeError")
  ELSE IF <<port_from, port_to>> \in DOMAIN g.edges THEN Raise(g, "DuplicateChannel")
  ELSE Return(AddEdge(g, port_from, port_to,
                      ChannelAttributes(port_from, port_to, shape, phase, a)))

----------------------------------------------------------------------------
(* Bounds on the graphs that are built *)

\* the nodes and channels that hold a numeric attribute a call without numeric
\* arguments would not have stored
NodeIsFixed(r) ==
  IF r.min_pressure = Absent
  THEN r.min_x # PyFalse \/ r.min_y # PyFalse
  ELSE \/ r.min_x # PyFalse \/ r.min_y # PyFalse \/ r.min_pressure # PyFalse
       \/ r.min_flow_rate # PyFalse \/ r.min_viscosity # PyFalse
       \/ r.min_density # PyNum(One)
EdgeIsFixed(r) ==
  \/ r.min_length # PyNum(Unset) \/ r.min_width # PyNum(Unset)
  \/ r.min_height # PyNum(Unset)
WithinBounds(g) ==
  /\ Cardinality(DOMAIN g.nodes) <= MaxNodes
  /\ Cardinality(DOMAIN g.edges) <= MaxChannels
  /\ Cardinality({n \in DOMAIN g.nodes : NodeIsFixed(g.nodes[n])})
       + Cardinality({e \in DOMAIN g.edges : EdgeIsFixed(g.edges[e])}) <= MaxFixed

\* The client is followed up to its first rejected construction call: the
\* exception leaves the graph as it was, so what can follow the call is what
\* can follow the state before it.  The schematic is built before it is
\* compiled.
Building == runs = 0 /\ lastCall.err = "ok" /\ ~work.on

\* a construction call takes effect: the caller sees the graph, or the exception
Taken(r) ==
  /\ Building
  /\ nodes' = r.g.nodes
  /\ nodeOrder' = r.g.nodeOrder
  /\ edges' = r.g.edges
  /\ edgeOrder' = r.g.edgeOrder
  /\ lastCall' = [err |-> r.err, res |-> "none", asked |-> <<>>]
  /\ UNCHANGED <<exprs, runs, work>>

Constructed(r) == WithinBounds(r.g) /\ Taken(r)

Port(name, kind, a) == Constructed(PortCall(Graph, name, kind, a))
Node(name, kind, a) == Constructed(NodeCall(Graph, name, kind, a))
Channel(port_from, port_to, shape, phase, a) ==
  Constructed(ChannelCall(Graph, port_from, port_to, shape, phase, a))

----------------------------------------------------------------------------
(* Compilation: translate_schematic and the strategies it dispatches to.    *)
(* A compilation state st holds self.exprs, the attribute dictionaries of   *)
(* the graph (translate_channel assigns to two of their entries) and the    *)
(* exception that ended the translation, if one did.                        *)

\* an integer literal of the source
R(n) == Real(n * Scale)

Emit(st, e) == IF st.err # "ok" THEN st ELSE [st EXCEPT !.exprs = Append(@, e)]
Fail(st, e) == IF st.err # "ok" THEN st ELSE [st EXCEPT !.err = e]

\* Real(value) of pysmt on a stored value.  Whether Real(False) is the constant
\* 0 or a type error is decided inside pysmt (by what its table of constants
\* holds): rf is the outcome, "zero" or "raise".
RealRaises(x, rf) == x.tag = "bool" /\ rf = "raise"
RealOf(x) == Real(x.v)

\* exprs.append(Equals(var, Real(stored))) or the raise of Real(stored)
EmitEquals(st, var, x, rf) ==
  IF x = Absent THEN Fail(st, "KeyError")
  ELSE IF RealRaises(x, rf) THEN Fail(st, "TypeError")
  ELSE Emit(st, Equals(var, RealOf(x)))

\* `if d['min_a']: append(Equals(d['a'], Real(d['min_a'])))
\*  else: append(GE(d['a'], Real(0)))`
FixedOrBounded(st, var, x, rf) ==
  IF x = Absent THEN Fail(st, "KeyError")
  ELSE IF Truthy(x) THEN EmitEquals(st, var, x, rf)
  ELSE Emit(st, GE(var, R(0)))

\* list(dg.succ[name]): the successors of name, in the order their channels
\* were added
RECURSIVE SuccOf(_, _)
SuccOf(order, name) ==
  IF order = <<>> THEN <<>>
  ELSE IF Head(order)[1] = name
       THEN <<Head(order)[2]>> \o SuccOf(Tail(order), name)
       ELSE SuccOf(Tail(order), name)

\* list(dg.edges): by node in insertion order, then by successor
RECURSIVE EdgeList(_, _)
EdgeList(norder, eorder) ==
  IF norder = <<>> THEN <<>>
  ELSE LET ss == SuccOf(eorder, Head(norder))
       IN [i \in 1..Len(ss) |-> <<Head(norder), ss[i]>>]
            \o EdgeList(Tail(norder), eorder)

\* dg.size(name): name is taken as the `weight` argument, so this is the sum
\* over ALL channels of the graph of the attribute called name, 1 where a
\* channel has no such attribute: the number of channels of the graph
Size(st, name) == Cardinality(DOMAIN st.edges)

\* self.dim, as Schematic.__init__ defaults it
dim == <<0, 0, 10, 10>>

\* Schematic.translate_chip
translate_chip(st, name) ==
  LET n == st.nodes[name] IN
  Emit(Emit(Emit(Emit(st,
    GE(n.x, R(dim[1]))),
    GE(n.y, R(dim[2]))),
    LE(n.x, R(dim[3]))),
    LE(n.y, R(dim[4])))

\* Schematic.translate_node
translate_node(st, name, rf) ==
  LET n == st.nodes[name] IN
  IF Truthy(n.min_x)
  THEN EmitEquals(EmitEquals(st, n.x, n.min_x, rf), n.y, n.min_y, rf)
  ELSE Emit(Emit(st, GE(n.x, R(0))), GE(n.y, R(0)))

\* the four attribute blocks that end translate_input and translate_output;
\* the test of the last is on the symbol n['density'], which is true
PortBlocks(st, name, rf) ==
  LET n == st.nodes[name]
      s1 == FixedOrBounded(st, n.pressure, n.min_pressure, rf)
      s2 == FixedOrBounded(s1, n.flow_rate, n.min_flow_rate, rf)
      s3 == FixedOrBounded(s2, n.viscosity, n.min_viscosity, rf)
  IN EmitEquals(s3, n.density, n.min_density, rf)

\* Schematic.translate_input
translate_input(st, name, rf) ==
  IF Len(SuccOf(st.edgeOrder, name)) <= 0 THEN Fail(st, "NoConnection")
  ELSE PortBlocks(translate_node(st, name, rf), name, rf)

\* Schematic.translate_output
translate_output(st, name, rf) ==
  IF Size(st, name) <= 0 THEN Fail(st, "NoConnection")
  ELSE PortBlocks(translate_node(st, name, rf), name, rf)

\* Schematic.calculate_channel_resistance: <<h < w, R>>
calculate_channel_resistance(st, e) ==
  LET c == st.edges[e]
      w == c.width
      h == c.height
      mu == c.viscosity
      chL == c.length
  IN <<LT(h, w),
       Div(Times(R(12), Times(mu, chL)),
           Times(w, Times(Pow(h, R(3)),
                          Minus(R(1), Times(RealC("0.63"), Div(h, w))))))>>

\* Schematic.pythagorean_length
pythagorean_length(st, e) ==
  LET c == st.edges[e]
      port_from == st.nodes[e[1]]
      port_to == st.nodes[e[2]]
      side_a == Minus(port_from.x, port_to.x)
      side_b == Minus(port_from.y, port_to.y)
  IN Equals(Plus(Pow(side_a, R(2)), Pow(side_b, R(2))), Pow(c.length, R(2)))

\* Schematic.channel_output_pressure
channel_output_pressure(st, e) ==
  LET c == st.edges[e]
  IN Minus(st.nodes[e[1]].pressure, Times(c.resistance, c.flow_rate))

\* Schematic.calculate_port_flow_rate
calculate_port_flow_rate(st, port_in) ==
  LET ss == SuccOf(st.edgeOrder, port_in)
      areas == [i \in 1..Len(ss) |->
                  Times(st.edges[<<port_in, ss[i]>>].length,
                        st.edges[<<port_in, ss[i]>>].width)]
      n == st.nodes[port_in]
  IN Times(PlusN(areas),
           Pow(Div(Times(R(2), n.pressure), n.density), RealC("0.5")))

\* a translate_channel that gives the channel the viscosity of its upstream
\* node and leaves the downstream node's viscosity alone
translate_channel_OwnViscosity(st, e, rf) ==
  LET c == st.edges[e]
      port_in == st.nodes[e[1]]
      port_out == st.nodes[e[2]]
      s1 == IF Truthy(c.min_length)
            THEN Emit(st, GT(c.length, RealOf(c.min_length)))
            ELSE Emit(st, GT(c.length, R(0)))
      s2 == Emit(s1, pythagorean_length(st, e))
      s3 == Emit(s2, Equals(c.viscosity, port_in.viscosity))
      s4 == s3
      s5 == Emit(s4, GE(c.width, R(0)))
      s6 == Emit(s5, GE(c.height, R(0)))
      resistance_list == calculate_channel_resistance(st, e)
      s7 == Emit(s6, resistance_list[1])
      resistance == resistance_list[2]
      s8 == Emit(s7, Equals(c.resistance, resistance))
      s9 == Emit(s8, GE(c.resistance, R(0)))
      \* named_channel['resistance'] = resistance
      s10 == IF s9.err # "ok" THEN s9
             ELSE [s9 EXCEPT !.edges[e].resistance = resistance]
      flow_rate == calculate_port_flow_rate(s10, e[1])
      s11 == Emit(s10, Equals(c.flow_rate, flow_rate))
      s12 == Emit(s11, Equals(port_in.flow_rate, flow_rate))
      s13 == Emit(s12, Equals(port_out.flow_rate, flow_rate))
      output_pressure == channel_output_pressure(s10, e)
      s14 == Emit(s13, Equals(port_out.pressure, output_pressure))
      s15 == Emit(s14, GE(port_out.pressure, R(0)))
  IN \* port_out['pressure'] = output_pressure
     IF s15.err # "ok" THEN s15
     ELSE [s15 EXCEPT !.nodes[e[2]].pressure = output_pressure]

\* Schematic.translate_channel on the channel e = (port_in, port_out)
translate_channel(st, e, rf) ==
  LET c == st.edges[e]
      port_in == st.nodes[e[1]]
      port_out == st.nodes[e[2]]
      s1 == IF Truthy(c.min_length)
            THEN Emit(st, GT(c.length, RealOf(c.min_length)))
            ELSE Emit(st, GT(c.length, R(0)))
      s2 == Emit(s1, pythagorean_length(st, e))
      s3 == Emit(s2, Equals(c.viscosity, port_in.viscosity))
      s4 == Emit(s3, Equals(port_out.viscosity, port_in.viscosity))
      s5 == Emit(s4, GE(c.width, R(0)))
      s6 == Emit(s5, GE(c.height, R(0)))
      resistance_list == calculate_channel_resistance(st, e)
      s7 == Emit(s6, resistance_list[1])
      resistance == resistance_list[2]
      s8 == Emit(s7, Equals(c.resistance, resistance))
      s9 == Emit(s8, GE(c.resistance, R(0)))
      \* named_channel['resistance'] = resistance
      s10 == IF s9.err # "ok" THEN s9
             ELSE [s9 EXCEPT !.edges[e].resistance = resistance]
      flow_rate == calculate_port_flow_rate(s10, e[1])
      s11 == Emit(s10, Equals(c.flow_rate, flow_rate))
      s12 == Emit(s11, Equals(port_in.flow_rate, flow_rate))
      s13 == Emit(s12, Equals(port_out.flow_rate, flow_rate))
      output_pressure == channel_output_pressure(s10, e)
      s14 == Emit(s13, Equals(port_out.pressure, output_pressure))
      s15 == Emit(s14, GE(port_out.pressure, R(0)))
  IN \* port_out['pressure'] = output_pressure
     IF s15.err # "ok" THEN s15
     ELSE [s15 EXCEPT !.nodes[e[2]].pressure = output_pressure]

\* a cosine_law_crit_angle that takes the angle at node1, between the
\* vectors to node2 and to node3
cosine_law_crit_angle_AtFirstNode(node1, node2, node3) ==
  LET aX == Minus(node2[1], node1[1])
      aY == Minus(node2[2], node1[2])
      bX == Minus(node3[1], node1[1])
      bY == Minus(node3[2], node1[2])
      a_dot_b_squared == Pow(Plus(Times(aX, bX), Times(aY, bY)), R(2))
      a_squared_b_squared ==
        Times(Plus(Times(aX, aX), Times(aY, aY)), Plus(Times(bX, bX), Times(bY, bY)))
  IN Div(a_dot_b_squared, a_squared_b_squared)

\* Schematic.cosine_law_crit_angle on three points <<x, y>>
cosine_law_crit_angle(node1, node2, node3) ==
  LET aX == Minus(node1[1], node2[1])
      aY == Minus(node1[2], node2[2])
      bX == Minus(node3[1], node2[1])
      bY == Minus(node3[2], node2[2])
      a_dot_b_squared == Pow(Plus(Times(aX, bX), Times(aY, bY)), R(2))
      a_squared_b_squared ==
        Times(Plus(Times(aX, aX), Times(aY, aY)), Plus(Times(bX, bX), Times(bY, bY)))
  IN Div(a_dot_b_squared, a_squared_b_squared)

\* a calculate_droplet_volume that takes the flow-rate ratio as qC / qD
calculate_droplet_volume_InverseRatio(h, w, wIn, epsilon, qD, qC) ==
  LET pi == RealC("math.pi")
      q_gutter == RealC("0.1")
      v_fill_simple ==
        Minus(Times(RealC("3/8"), pi),
              Times(Times(Div(pi, R(2)), Minus(R(1), Div(pi, R(4)))), Div(h, w)))
      hw_parallel == Div(Times(h, w), Plus(h, w))
      r_pinch ==
        Plus(w, Plus(Minus(wIn, Minus(hw_parallel, epsilon)),
                     Pow(Times(R(2), Times(Minus(wIn, hw_parallel),
                                           Minus(w, hw_parallel))),
                         RealC("0.5"))))
      r_fill == w
      alpha ==
        Times(Minus(R(1), Div(pi, R(4))),
              Times(Pow(Minus(R(1), q_gutter), R(0 - 1)),
                    Plus(Minus(Pow(Div(r_pinch, w), R(2)), Pow(Div(r_fill, w), R(2))),
                         Times(Div(pi, R(4)),
                               Times(Minus(Div(r_pinch, w), Div(r_fill, w)),
                                     Div(h, w))))))
  IN Times(Times(h, Times(w, w)), Plus(v_fill_simple, Times(alpha, Div(qC, qD))))

\* Schematic.calculate_droplet_volume
calculate_droplet_volume(h, w, wIn, epsilon, qD, qC) ==
  LET pi == RealC("math.pi")
      q_gutter == RealC("0.1")
      v_fill_simple ==
        Minus(Times(RealC("3/8"), pi),
              Times(Times(Div(pi, R(2)), Minus(R(1), Div(pi, R(4)))), Div(h, w)))
      hw_parallel == Div(Times(h, w), Plus(h, w))
      r_pinch ==
        Plus(w, Plus(Minus(wIn, Minus(hw_parallel, epsilon)),
                     Pow(Times(R(2), Times(Minus(wIn, hw_parallel),
                                           Minus(w, hw_parallel))),
                         RealC("0.5"))))
      r_fill == w
      alpha ==
        Times(Minus(R(1), Div(pi, R(4))),
              Times(Pow(Minus(R(1), q_gutter), R(0 - 1)),
                    Plus(Minus(Pow(Div(r_pinch, w), R(2)), Pow(Div(r_fill, w), R(2))),
                         Times(Div(pi, R(4)),
                               Times(Minus(Div(r_pinch, w), Div(r_fill, w)),
                                     Div(h, w))))))
  IN Times(Times(h, Times(w, w)), Plus(v_fill_simple, Times(alpha, Div(qD, qC))))

\* a loop that gives the roles by position: the first channel into name is
\* taken as the continuous one, the next as the dispersed one
RECURSIVE PhaseLoop_ByPosition(_, _, _, _)
PhaseLoop_ByPosition(t, es, name, out) ==
  IF es = <<>> \/ t.st.err # "ok" THEN t
  ELSE
    LET e == Head(es)
        output_channel == t.st.edges[<<name, out>>]
        c == t.st.edges[e]
    IN IF e[2] # name THEN PhaseLoop_ByPosition(t, Tail(es), name, out)
       ELSE IF t.cont = <<>>
       THEN PhaseLoop_ByPosition(
              [t EXCEPT !.cont = e[1],
                        !.st = Emit(Emit(@, Equals(c.width, output_channel.width)),
                                    Equals(c.height, output_channel.height))],
              Tail(es), name, out)
       ELSE PhaseLoop_ByPosition(
              [t EXCEPT !.disp = e[1],
                        !.st = Emit(@, Equals(c.height, output_channel.height))],
              Tail(es), name, out)

\* the loop of translate_tjunc over nx.get_edge_attributes(dg, 'phase'): every
\* channel of the graph, whatever node it is incident to.  t holds the
\* compilation state and the names found so far ('' is <<>>).
RECURSIVE PhaseLoop(_, _, _, _)
PhaseLoop(t, es, name, out) ==
  IF es = <<>> \/ t.st.err # "ok" THEN t
  ELSE
    LET e == Head(es)
        phase == t.st.edges[e].phase
        output_channel == t.st.edges[<<name, out>>]
    IN IF phase = S_continuous
       THEN IF <<e[1], name>> \notin DOMAIN t.st.edges
            THEN [t EXCEPT !.st = Fail(@, "KeyError")]
            ELSE LET c == t.st.edges[<<e[1], name>>]
                 IN PhaseLoop(
                      [t EXCEPT !.cont = e[1],
                                !.st = Emit(Emit(@, Equals(c.width, output_channel.width)),
                                            Equals(c.height, output_channel.height))],
                      Tail(es), name, out)
       ELSE IF phase = S_dispersed
       THEN IF <<e[1], name>> \notin DOMAIN t.st.edges
            THEN [t EXCEPT !.st = Fail(@, "KeyError")]
            ELSE LET d == t.st.edges[<<e[1], name>>]
                 IN PhaseLoop(
                      [t EXCEPT !.disp = e[1],
                                !.st = Emit(@, Equals(d.height, output_channel.height))],
                      Tail(es), name, out)
       ELSE IF phase = S_output
       THEN PhaseLoop(t, Tail(es), name, out)
       ELSE [t EXCEPT !.st = Fail(@, "InvalidPhase")]

\* Schematic.translate_tjunc
translate_tjunc(st, name, rf) ==
  IF Size(st, name) # 3 THEN Fail(st, "InvalidTopology")
  ELSE
    LET s1 == translate_node(st, name, rf)
        ss == SuccOf(st.edgeOrder, name)
    IN IF s1.err # "ok" THEN s1
       ELSE IF ss = <<>> THEN Fail(s1, "IndexError")
       ELSE
         LET out == ss[1]
             junction_node == s1.nodes[name]
             output_node == s1.nodes[out]
             output_channel == s1.edges[<<name, out>>]
             t == PhaseLoop([st |-> s1, cont |-> <<>>, disp |-> <<>>],
                            EdgeList(s1.nodeOrder, s1.edgeOrder), name, out)
             epsilon == Symbol(S_epsilon)
             s2 == Emit(t.st, GE(epsilon, R(0)))
         IN IF s2.err # "ok" THEN s2
            \* continuous_node is still '': ''['pressure'] is a TypeError
            ELSE IF t.cont = <<>> THEN Fail(s2, "TypeError")
            ELSE IF t.disp = <<>>
            THEN Fail(Emit(s2, Equals(junction_node.pressure,
                                      s2.nodes[t.cont].pressure)), "TypeError")
            ELSE
              LET continuous_node == s2.nodes[t.cont]
                  dispersed_node == s2.nodes[t.disp]
                  dispersed_channel == s2.edges[<<t.disp, name>>]
                  nC == <<continuous_node.x, continuous_node.y>>
                  nO == <<output_node.x, output_node.y>>
                  nJ == <<junction_node.x, junction_node.y>>
                  nD == <<dispersed_node.x, dispersed_node.y>>
                  crit == RealC("math.cos(math.radians(0.5))**2")
                  s3 == Emit(s2, Equals(junction_node.pressure, continuous_node.pressure))
                  s4 == Emit(s3, Equals(junction_node.pressure, dispersed_node.pressure))
                  s5 == Emit(s4, Equals(junction_node.pressure, output_node.pressure))
                  s6 == Emit(s5, Equals(continuous_node.viscosity, output_node.viscosity))
                  s7 == Emit(s6, Equals(output_channel.droplet_volume,
                          calculate_droplet_volume(output_channel.height,
                            output_channel.width, dispersed_channel.width, epsilon,
                            dispersed_node.flow_rate, continuous_node.flow_rate)))
                  s8 == Emit(s7, Equals(R(0),
                          Div(Plus(Times(nC[1], Minus(nJ[2], nO[2])),
                                   Plus(Times(nJ[1], Minus(nO[2], nC[2])),
                                        Times(nO[1], Minus(nC[2], nJ[2])))),
                              R(2))))
                  s9 == Emit(s8, LE(crit, cosine_law_crit_angle(nC, nJ, nD)))
                  s10 == Emit(s9, LE(crit, cosine_law_crit_angle(nC, nJ, nO)))
              IN Emit(s10, LE(crit, cosine_law_crit_angle(nO, nJ, nD)))

\* self.translation_strats[kind](name) for a node: the strategy of kind
\* 'rectangle' is translate_channel, whose self.dg.edges[name] unpacks the
\* string name as a pair of characters
NodeStrategy(st, name, rf) ==
  LET kind == st.nodes[name].kind IN
  IF kind = S_input THEN translate_input(st, name, rf)
  ELSE IF kind = S_output THEN translate_output(st, name, rf)
  ELSE IF kind = S_tjunction THEN translate_tjunc(st, name, rf)
  ELSE IF kind = S_rectangle
  THEN IF Len(name) # 2 THEN Fail(st, "ValueError")
       ELSE IF <<<<name[1]>>, <<name[2]>>>> \notin DOMAIN st.edges
            THEN Fail(st, "KeyError")
            ELSE translate_channel(st, <<<<name[1]>>, <<name[2]>>>>, rf)
  ELSE Fail(st, "KeyError")

\* self.translation_strats[shape](name) for a channel
EdgeStrategy(st, e, rf) ==
  IF st.edges[e].shape = S_rectangle THEN translate_channel(st, e, rf)
  ELSE Fail(st, "KeyError")

RECURSIVE NodeLoop(_, _, _)
NodeLoop(st, ns, rf) ==
  IF ns = <<>> \/ st.err # "ok" THEN st
  ELSE NodeLoop(NodeStrategy(st, Head(ns), rf), Tail(ns), rf)

RECURSIVE EdgeLoop(_, _, _)
EdgeLoop(st, es, rf) ==
  IF es = <<>> \/ st.err # "ok" THEN st
  ELSE EdgeLoop(EdgeStrategy(st, Head(es), rf), Tail(es), rf)

RECURSIVE ChipLoop(_, _)
ChipLoop(st, ns) ==
  IF ns = <<>> \/ st.err # "ok" THEN st
  ELSE ChipLoop(translate_chip(st, Head(ns)), Tail(ns))

\* a translate_schematic that bounds the nodes to the chip area first
translate_schematic_ChipFirst(st, rf) ==
  EdgeLoop(NodeLoop(ChipLoop(st, st.nodeOrder), st.nodeOrder, rf),
           EdgeList(st.nodeOrder, st.edgeOrder), rf)

\* Schematic.translate_schematic
translate_schematic(st, rf) ==
  ChipLoop(EdgeLoop(NodeLoop(st, st.nodeOrder, rf),
                    EdgeList(st.nodeOrder, st.edgeOrder), rf),
           st.nodeOrder)

\* the compilation state that a call of translate_schematic starts from
Compiling ==
  [exprs |-> exprs, nodes |-> nodes, edges |-> edges, nodeOrder |-> nodeOrder,
   edgeOrder |-> edgeOrder, err |-> "ok"]

\* what get_model answers: a model, or None
Answers == {"model", "None"}

\* an invoke_backend that hands the answer of get_model on as it is
invoke_backend_AnswerAsIs(model) == model

\* Schematic.invoke_backend, from the answer of get_model on And(self.exprs)
invoke_backend(model) ==
  IF model # "None" THEN model ELSE "No solution found"

\* Schematic.solve: translate_schematic, then invoke_backend.  When the
\* translation raises, solve raises and get_model is not called.  asked holds
\* each call of get_model: the formula And(self.exprs) and the answer.
Solve(st, model) ==
  /\ runs < MaxRuns
  /\ runs > 0 \/ lastCall.err = "ok"
  /\ exprs' = st.exprs
  /\ nodes' = st.nodes
  /\ edges' = st.edges
  /\ runs' = runs + 1
  /\ lastCall' = IF st.err = "ok"
                 THEN [err |-> "ok", res |-> invoke_backend(model),
                       asked |-> <<[formula |-> And(st.exprs),
                                    answer |-> model]>>]
                 ELSE [err |-> st.err, res |-> "none", asked |-> <<>>]
  /\ UNCHANGED <<nodeOrder, edgeOrder, work>>

\* Real(False) is reached only from a node whose y is unset while its x is
\* fixed, or whose density is unset: only then has pysmt an outcome to decide
RealFalseOutcomes ==
  IF \E n \in DOMAIN nodes :
       \/ Truthy(nodes[n].min_x) /\ nodes[n].min_y = PyFalse
       \/ nodes[n].min_density = PyFalse
  THEN {"zero", "raise"}
  ELSE {"zero"}

DoSolve ==
  \E rf \in RealFalseOutcomes :
    LET st == translate_schematic(Compiling, rf) IN
    \E model \in Answers : Solve(st, model)

\* A call that repeats a name, or a pair, is taken with the other arguments
\* at one value; a call passes numeric arguments, or a phase, or a shape that
\* is not 'rectangle', and not two of these.
DoPort ==
  \E name \in Names, kind \in PortKinds, a \in PortArgs :
    /\ name \in DOMAIN nodes => (kind = S_input /\ a = PortDefaults)
    /\ Port(name, kind, a)
DoNode ==
  \E name \in Names, kind \in NodeKinds, a \in NodeArgs :
    /\ kind = S_rectangle \/ a = NodeDefaults
    /\ name \in DOMAIN nodes => (kind = S_tjunction /\ a = NodeDefaults)
    /\ Node(name, kind, a)
DoChannel ==
  \E port_from \in Names, port_to \in Names, shape \in Shapes, phase \in Phases,
     a \in ChannelArgs :
       /\ port_from # port_to
       /\ phase = S_None \/ a = ChannelDefaults
       /\ shape = S_rectangle \/ (phase = S_None /\ a = ChannelDefaults)
       /\ <<port_from, port_to>> \in DOMAIN edges =>
            (shape = S_rectangle /\ phase = S_None /\ a = ChannelDefaults)
       /\ Channel(port_from, port_to, shape, phase, a)

\* the construction calls alone: a schematic that is built and not compiled
NextBuild == DoPort \/ DoNode \/ DoChannel

SpecBuild == Init /\ [][NextBuild]_vars

Next == NextBuild \/ DoSolve

Spec == Init /\ [][Next]_vars

----------------------------------------------------------------------------
(* Schematics of default-valued ports, nodes and channels over more names,  *)
(* one of which holds the separator of the variable names                   *)

WideNames == {S_a, S_b, S_a_b, S_c}

DoPortW ==
  \E name \in WideNames, kind \in {S_input, S_output} :
    Port(name, kind, PortDefaults)
DoNodeW ==
  \E name \in WideNames, kind \in {S_tjunction, S_node} :
    Node(name, kind, NodeDefaults)
DoChannelW ==
  \E port_from \in WideNames, port_to \in WideNames :
    /\ port_from # port_to
    /\ Channel(port_from, port_to, S_rectangle, S_None, ChannelDefaults)

NextNames == DoPortW \/ DoNodeW \/ DoChannelW

SpecNames == Init /\ [][NextNames]_vars

----------------------------------------------------------------------------
(* Schematics wired from the parts of tests/t_junction_test.py: the input   *)
(* ports c (continuous) and d (dispersed) with min_pressure = 1, the output *)
(* port o and the T-junction j at (1, 0).  The test's kind 'tjunc' is no    *)
(* key of translation_strats; j is declared with the key 't-junction'.      *)
(* The parts are wired in any way the pairs and phases below allow, and the *)
(* schematic is solved once.                                                *)

TestPortArgs == [PortDefaults EXCEPT !["min_pressure"] = One]
TestNodeArgs == [x |-> One, y |-> 0]

JunctionPairs == {<<S_c, S_j>>, <<S_d, S_j>>, <<S_j, S_o>>, <<S_d, S_o>>}
JunctionPhases == {S_continuous, S_dispersed, S_output, S_None}

\* the inputs in either order, then the output
DoPortJ ==
  \/ \E name \in {S_c, S_d} :
       /\ name \notin DOMAIN nodes
       /\ Taken(PortCall(Graph, name, S_input, TestPortArgs))
  \/ /\ {S_c, S_d} \subseteq DOMAIN nodes
     /\ S_o \notin DOMAIN nodes
     /\ Taken(PortCall(Graph, S_o, S_output, PortDefaults))
DoNodeJ ==
  /\ S_o \in DOMAIN nodes
  /\ S_j \notin DOMAIN nodes
  /\ Taken(NodeCall(Graph, S_j, S_tjunction, TestNodeArgs))
DoChannelJ ==
  \E e \in JunctionPairs, phase \in JunctionPhases :
    /\ {e[1], e[2]} \subseteq DOMAIN nodes
    /\ e \notin DOMAIN edges
    /\ Cardinality(DOMAIN edges) < MaxWires
    /\ Taken(ChannelCall(Graph, e[1], e[2], S_rectangle, phase, ChannelDefaults))
DoSolveJ == runs = 0 /\ DoSolve

NextJunction == DoPortJ \/ DoNodeJ \/ DoChannelJ \/ DoSolveJ

SpecJunction == Init /\ [][NextJunction]_vars

\* The same schematics, solved again after the first solve(): a client may
\* call solve() on a Schematic any number of times.
DoSolveAgainJ == runs > 0 /\ DoSolve

NextResolve == NextJunction \/ DoSolveAgainJ

SpecResolve == Init /\ [][NextResolve]_vars

----------------------------------------------------------------------------
(* translate_schematic() taken one strategy call at a time: a loop over the *)
(* nodes, a loop over the channels, a loop over the nodes.  work holds the  *)
(* calls the running translation has yet to make.  The schematics are two   *)
(* nodes with channels in any direction, self-loops and cycles included.    *)

\* the calls of the three loops, in order
Items(ns, es) ==
  [i \in 1..Len(ns) |-> [loop |-> "node", item |-> <<ns[i]>>]]
    \o [i \in 1..Len(es) |-> [loop |-> "edge", item |-> es[i]]]
    \o [i \in 1..Len(ns) |-> [loop |-> "chip", item |-> <<ns[i]>>]]

\* the compilation state after the call it
StepOn(it, rf) ==
  IF it.loop = "node" THEN NodeStrategy(Compiling, it.item[1], rf)
  ELSE IF it.loop = "edge" THEN EdgeStrategy(Compiling, it.item, rf)
  ELSE translate_chip(Compiling, it.item[1])

\* a traversal in which a node's strategy goes on to the channels out of the
\* node and a channel's strategy to the node the channel ends in
Advance_Recursive(items) ==
  LET it == Head(items)
      ss == SuccOf(edgeOrder, it.item[1])
  IN IF it.loop = "node"
     THEN [i \in 1..Len(ss) |-> [loop |-> "edge", item |-> <<it.item[1], ss[i]>>]]
            \o Tail(items)
     ELSE IF it.loop = "edge"
     THEN <<[loop |-> "node", item |-> <<it.item[2]>>]>> \o Tail(items)
     ELSE Tail(items)

\* the for loop goes on to its next element; no strategy calls a strategy
Advance(items) == Tail(items)

BeginCompile ==
  /\ Building
  /\ \E rf \in RealFalseOutcomes :
       work' = [on |-> TRUE,
                items |-> Items(nodeOrder, EdgeList(nodeOrder, edgeOrder)),
                rf |-> rf]
  /\ UNCHANGED <<nodes, nodeOrder, edges, edgeOrder, exprs, runs, lastCall>>

\* one strategy call; an exception it raises ends translate_schematic()
StepCompile ==
  /\ work.on
  /\ work.items # <<>>
  /\ LET st == StepOn(Head(work.items), work.rf) IN
     /\ exprs' = st.exprs
     /\ nodes' = st.nodes
     /\ edges' = st.edges
     /\ IF st.err = "ok"
        THEN /\ work' = [work EXCEPT !.items = Advance(@)]
             /\ UNCHANGED <<runs, lastCall>>
        ELSE /\ work' = Idle
             /\ runs' = runs + 1
             /\ lastCall' = [err |-> st.err, res |-> "none", asked |-> <<>>]
  /\ UNCHANGED <<nodeOrder, edgeOrder>>

\* the last loop is exhausted: translate_schematic() returns
EndCompile ==
  /\ work.on
  /\ work.items = <<>>
  /\ work' = Idle
  /\ runs' = runs + 1
  /\ lastCall' = [err |-> "ok", res |-> "none", asked |-> <<>>]
  /\ UNCHANGED <<nodes, nodeOrder, edges, edgeOrder, exprs>>

DoPortT ==
  \E name \in Names, kind \in {S_input, S_output} :
    /\ name \notin DOMAIN nodes
    /\ Taken(PortCall(Graph, name, kind, PortDefaults))
DoNodeT ==
  \E name \in Names :
    /\ name \notin DOMAIN nodes
    /\ Taken(NodeCall(Graph, name, S_tjunction, NodeDefaults))
DoChannelT ==
  \E port_from \in Names, port_to \in Names :
    /\ {port_from, port_to} \subseteq DOMAIN nodes
    /\ <<port_from, port_to>> \notin DOMAIN edges
    /\ Cardinality(DOMAIN edges) < MaxLoop
    /\ Taken(ChannelCall(Graph, port_from, port_to, S_rectangle, S_None,
                         ChannelDefaults))

NextTraverse ==
  DoPortT \/ DoNodeT \/ DoChannelT \/ BeginCompile \/ StepCompile \/ EndCompile

\* what StepCompile and EndCompile do to work: the call in turn is made, or
\* the translation is over
Progress ==
  /\ work.on
  /\ work' \in {Idle} \cup
       (IF work.items # <<>> THEN {[work EXCEPT !.items = Advance(@)]} ELSE {})

\* the interpreter goes on with a translate_schematic() that has begun: while
\* one is running, a step of it is eventually taken
SpecTraverse == Init /\ [][NextTraverse]_vars /\ WF_work(Progress)

----------------------------------------------------------------------------
(* Positions.  An input port a and an output port b, each with its x and   *)
(* its y left out, given as 0 or given as 1, independently; the channel    *)
(* a -> b; one solve().                                                    *)

Coordinates == {Unset, 0, One}

DoPortP ==
  \E name \in Names, x \in Coordinates, y \in Coordinates :
    /\ name \notin DOMAIN nodes
    /\ Taken(PortCall(Graph, name, IF name = S_a THEN S_input ELSE S_output,
                      [PortDefaults EXCEPT !["x"] = x, !["y"] = y]))
DoChannelP ==
  /\ {S_a, S_b} \subseteq DOMAIN nodes
  /\ <<S_a, S_b>> \notin DOMAIN edges
  /\ Taken(ChannelCall(Graph, S_a, S_b, S_rectangle, S_None, ChannelDefaults))
DoSolveP == runs = 0 /\ DoSolve

NextPosition == DoPortP \/ DoChannelP \/ DoSolveP

SpecPosition == Init /\ [][NextPosition]_vars

----------------------------------------------------------------------------
(* Viscosities.  The input ports c and d, each with its min_viscosity left *)
(* out, 1 or 2, the output port o and, if declared, the T-junction j; the  *)
(* channels of the junction with the tags of their roles, or channels from *)
(* the inputs straight to o; one solve().                                  *)

Viscosities == {Unset, One, 2 * One}

ViscosityPairs ==
  {<<S_c, S_j>>, <<S_d, S_j>>, <<S_j, S_o>>, <<S_c, S_o>>, <<S_d, S_o>>}
ViscosityPhase(e) ==
  IF e = <<S_c, S_j>> THEN S_continuous
  ELSE IF e = <<S_d, S_j>> THEN S_dispersed
  ELSE IF e = <<S_j, S_o>> THEN S_output
  ELSE S_None

DoPortV ==
  \/ \E name \in {S_c, S_d}, v \in Viscosities :
       /\ name \notin DOMAIN nodes
       /\ Taken(PortCall(Graph, name, S_input,
                         [TestPortArgs EXCEPT !["min_viscosity"] = v]))
  \/ /\ {S_c, S_d} \subseteq DOMAIN nodes
     /\ S_o \notin DOMAIN nodes
     /\ Taken(PortCall(Graph, S_o, S_output, PortDefaults))
DoNodeV ==
  /\ S_o \in DOMAIN nodes
  /\ S_j \notin DOMAIN nodes
  /\ DOMAIN edges = {}
  /\ Taken(NodeCall(Graph, S_j, S_tjunction, TestNodeArgs))
DoChannelV ==
  \E e \in ViscosityPairs :
    /\ {e[1], e[2]} \subseteq DOMAIN nodes
    /\ e \notin DOMAIN edges
    /\ Cardinality(DOMAIN edges) < MaxWires
    /\ Taken(ChannelCall(Graph, e[1], e[2], S_rectangle, ViscosityPhase(e),
                         ChannelDefaults))
DoSolveV == runs = 0 /\ DoSolve

NextViscosity == DoPortV \/ DoNodeV \/ DoChannelV \/ DoSolveV

SpecViscosity == Init /\ [][NextViscosity]_vars

----------------------------------------------------------------------------
(* Properties *)

\* the elements of a sequence
Range(q) == {q[i] : i \in 1..Len(q)}

\* every graph that is reached is the graph of a state whose last call was
\* accepted (a rejected call leaves the graph it found): what a further call
\* does to a graph is looked at in these states
Accepted == lastCall.err = "ok"

\* C1: no name is a node twice, and a port() or node() call whose name is
\* already a node of the graph fails with the duplicate-identifier error,
\* whatever its kind and numeric arguments, and leaves the graph as it was.
C1_DuplicateIdentifier ==
  /\ Len(nodeOrder) = Cardinality(DOMAIN nodes)
  /\ Range(nodeOrder) = DOMAIN nodes
  /\ Accepted =>
       \A name \in DOMAIN nodes :
         /\ \A kind \in PortKinds, a \in PortArgs :
              PortCall(Graph, name, kind, a) = Raise(Graph, "DuplicateIdentifier")
         /\ \A kind \in NodeKinds, a \in NodeArgs :
              NodeCall(Graph, name, kind, a) = Raise(Graph, "DuplicateIdentifier")

\* a port() or node() call was rejected for its name
C1_Witness ==
  /\ lastCall.err = "DuplicateIdentifier"
  /\ DOMAIN nodes # {}

\* C2: a channel() call one of whose endpoints is no node of the graph fails
\* and adds neither a channel nor a node; the failure is the unknown-endpoint
\* error, unless the shape test, which comes first, has rejected the call (it
\* never rejects 'rectangle').  So every channel joins two declared nodes.
C2_UnknownEndpoint ==
  /\ \A e \in DOMAIN edges : e[1] \in DOMAIN nodes /\ e[2] \in DOMAIN nodes
  /\ \A n \in DOMAIN nodes : nodes[n].kind # EmptyNode.kind
  /\ Accepted =>
       \A port_from \in Names, port_to \in Names, shape \in Shapes,
          phase \in Phases, a \in ChannelArgs :
         (port_from \notin DOMAIN nodes \/ port_to \notin DOMAIN nodes) =>
           LET r == ChannelCall(Graph, port_from, port_to, shape, phase, a) IN
           /\ r.err \in {"UnknownEndpoint", "InvalidShape"}
           /\ shape = S_rectangle => r.err = "UnknownEndpoint"
           /\ r.g = Graph

\* a channel() call was rejected for an endpoint
C2_Witness ==
  /\ lastCall.err = "UnknownEndpoint"
  /\ \E n \in Names : n \notin DOMAIN nodes

\* C3: a channel() call for an ordered pair that is a channel already fails and
\* leaves the graph, the existing channel's attributes included, as it was; the
\* failure is the duplicate-channel error when the shape and the numeric
\* arguments pass the tests that come first.  So no pair is a channel twice.
C3_DuplicateChannel ==
  /\ Len(edgeOrder) = Cardinality(DOMAIN edges)
  /\ Range(edgeOrder) = DOMAIN edges
  /\ Accepted =>
       \A e \in DOMAIN edges, shape \in Shapes, phase \in Phases,
          a \in ChannelArgs :
         LET r == ChannelCall(Graph, e[1], e[2], shape, phase, a) IN
         /\ r.err \in {"DuplicateChannel", "InvalidShape", "TypeError"}
         /\ (shape = S_rectangle /\ \A p \in ChannelParams : a[p] >= Unset)
              => r.err = "DuplicateChannel"
         /\ r.g = Graph

\* a channel() call was rejected for its pair
C3_Witness ==
  /\ lastCall.err = "DuplicateChannel"
  /\ DOMAIN edges # {}

\* C4: every channel of the graph has the shape 'rectangle', the one shape the
\* dispatch table holds a channel strategy for: channel() has rejected every
\* call with another shape string.
C4_OnlyRectangleStored ==
  \A e \in DOMAIN edges : edges[e].shape = S_rectangle

\* C5: every node of the graph has a node kind, so none is dispatched to the
\* strategy of a channel shape: port() and node() accept the node kinds only.
C5_OnlyNodeKindsStored ==
  \A n \in DOMAIN nodes :
    nodes[n].kind \in {S_input, S_output, S_node, S_tjunction, S_ep_cross}

\* C6: no negative number is stored as a fixed bound of a port, node or
\* channel: a call that passes one has failed.
C6_NoNegativeBoundStored ==
  /\ \A n \in DOMAIN nodes :
       \A k \in {"min_pressure", "min_flow_rate", "min_viscosity", "min_density",
                 "min_x", "min_y"} :
         nodes[n][k].tag = "num" => nodes[n][k].v >= 0
  /\ \A e \in DOMAIN edges :
       \A k \in {"min_length", "min_width", "min_height"} :
         edges[e][k].tag = "num" => edges[e][k].v >= 0

\* the relations of pysmt that bound a variable
Relations == {"Equals", "GE", "GT", "LE", "LT"}

\* C7: after a first completed compilation, a node whose x is fixed at 0 has
\* the equality x = 0 among the constraints, and no constraint bounds a
\* variable by the unset sentinel -1.
C7_UnsetIsNotZero ==
  (runs = 1 /\ lastCall.err = "ok") =>
    /\ \A n \in DOMAIN nodes :
         nodes[n].min_x = PyNum(0) =>
           \E i \in 1..Len(exprs) : exprs[i] = Equals(nodes[n].x, Real(0))
    /\ \A i \in 1..Len(exprs) :
         exprs[i].op \in Relations => exprs[i].args[2] # Real(Unset)

\* the attributes that hold the variables of a node and of a channel
NodeVariables == {"viscosity", "pressure", "flow_rate", "density", "x", "y"}
ChannelVariables ==
  {"length", "width", "height", "flow_rate", "droplet_volume", "viscosity",
   "resistance"}

\* C8: the variables of the graph are pairwise distinct: two attributes hold
\* the same variable only if they are one attribute of one node or channel.
C8_VariableNamesInjective ==
  /\ \A n \in DOMAIN nodes, m \in DOMAIN nodes :
       \A k \in NodeVariables, l \in NodeVariables :
         nodes[n][k] = nodes[m][l] => (n = m /\ k = l)
  /\ \A e \in DOMAIN edges, f \in DOMAIN edges :
       \A k \in ChannelVariables, l \in ChannelVariables :
         edges[e][k] = edges[f][l] => (e = f /\ k = l)
  /\ \A n \in DOMAIN nodes, e \in DOMAIN edges :
       \A k \in NodeVariables, l \in ChannelVariables :
         nodes[n][k] # edges[e][l]

\* C9: a compilation changes neither the topology nor any stored attribute of
\* the graph.
C9_CompileLeavesGraph ==
  [][runs' # runs =>
       /\ nodes' = nodes
       /\ edges' = edges
       /\ nodeOrder' = nodeOrder
       /\ edgeOrder' = edgeOrder]_vars

\* C10: a compilation that follows a completed compilation of the same graph
\* and itself completes yields the constraints of the first, in the same
\* order, and none left over from it.
C10_FreshConstraintSet ==
  [][(runs >= 1 /\ runs' = runs + 1 /\ lastCall.err = "ok" /\ lastCall'.err = "ok")
       => exprs' = exprs]_vars

\* the channels into name
Incoming(name) == {e \in DOMAIN edges : e[2] = name}
\* the channels out of name
Outgoing(name) == {e \in DOMAIN edges : e[1] = name}

\* C11: whatever other channels the graph holds, translating an input port
\* with no outgoing channel fails with NoConnection, translating an output
\* port with no incoming channel fails with NoConnection, and a port that has
\* its required channel is not rejected by this check.
C11_PortWithoutChannel ==
  \A n \in DOMAIN nodes :
    /\ nodes[n].kind = S_input =>
         (translate_input(Compiling, n, "zero").err = "NoConnection"
            <=> Outgoing(n) = {})
    /\ nodes[n].kind = S_output =>
         (translate_output(Compiling, n, "zero").err = "NoConnection"
            <=> Incoming(n) = {})

\* C12: translating an output port that has an outgoing channel, or an input
\* port that has an incoming channel, fails with InvalidTopology; a solve() of
\* a schematic that holds such a port is aborted and calls get_model on no
\* formula.
C12_WrongDirection ==
  /\ \A n \in DOMAIN nodes :
       /\ (nodes[n].kind = S_output /\ Outgoing(n) # {}) =>
            translate_output(Compiling, n, "zero").err = "InvalidTopology"
       /\ (nodes[n].kind = S_input /\ Incoming(n) # {}) =>
            translate_input(Compiling, n, "zero").err = "InvalidTopology"
  /\ (/\ runs > 0
      /\ \E n \in DOMAIN nodes :
           \/ nodes[n].kind = S_output /\ Outgoing(n) # {}
           \/ nodes[n].kind = S_input /\ Incoming(n) # {})
       => lastCall.asked = <<>>

\* the channels incident to name, incoming plus outgoing
Incident(name) == Incoming(name) \cup Outgoing(name)

\* C13: translating a T-junction fails with InvalidTopology exactly when the
\* number of channels incident to it is not 3, whatever channels the graph
\* holds elsewhere.
C13_ThreeConnections ==
  \A n \in DOMAIN nodes :
    nodes[n].kind = S_tjunction =>
      (translate_tjunc(Compiling, n, "zero").err = "InvalidTopology"
         <=> Cardinality(Incident(n)) # 3)

\* the three channels of name are one outgoing channel tagged 'output', one
\* incoming channel tagged 'continuous' and one incoming channel tagged
\* 'dispersed'
ProperJunction(name) ==
  \E out \in Outgoing(name), ci \in Incoming(name), di \in Incoming(name) :
    /\ ci # di
    /\ Incident(name) = {out, ci, di}
    /\ edges[out].phase = S_output
    /\ edges[ci].phase = S_continuous
    /\ edges[di].phase = S_dispersed

\* C14: translating a T-junction succeeds only if its three channels are one
\* outgoing 'output', one incoming 'continuous' and one incoming 'dispersed'
\* channel; with any other combination the translation fails with
\* InvalidPhase or InvalidTopology.
C14_RolesRequired ==
  \A n \in DOMAIN nodes :
    nodes[n].kind = S_tjunction =>
      LET r == translate_tjunc(Compiling, n, "zero") IN
      /\ r.err = "ok" => ProperJunction(n)
      /\ ~ProperJunction(n) => r.err \in {"InvalidPhase", "InvalidTopology"}

\* the channel into name that carries the tag phase
Tagged(name, phase) == {e \in Incoming(name) : edges[e].phase = phase}

\* C15: at a properly wired T-junction whose schematic has been compiled,
\* the incoming channel tagged 'continuous' has its width and its height
\* equated with the output channel's, and the incoming channel tagged
\* 'dispersed' its height only, whichever of the two was added first and
\* whichever of the two predecessors carries which tag.
C15_RoleByPhase ==
  \A n \in DOMAIN nodes :
    (/\ nodes[n].kind = S_tjunction
     /\ ProperJunction(n)
     /\ runs > 0
     /\ lastCall.err = "ok") =>
      \A out \in Outgoing(n), ci \in Tagged(n, S_continuous),
         di \in Tagged(n, S_dispersed) :
        /\ Equals(edges[ci].width, edges[out].width) \in Range(exprs)
        /\ Equals(edges[ci].height, edges[out].height) \in Range(exprs)
        /\ Equals(edges[di].height, edges[out].height) \in Range(exprs)
        /\ Equals(edges[di].width, edges[out].width) \notin Range(exprs)

\* a compiled T-junction whose dispersed channel was added before its
\* continuous channel and comes from the node that was declared first
C15_Witness ==
  /\ runs > 0
  /\ lastCall.err = "ok"
  /\ ProperJunction(S_j)
  /\ edges[<<S_c, S_j>>].phase = S_dispersed
  /\ edges[<<S_d, S_j>>].phase = S_continuous
  /\ nodeOrder[1] = S_c
  /\ \E i, k \in 1..Len(edgeOrder) :
       i < k /\ edgeOrder[i] = <<S_c, S_j>> /\ edgeOrder[k] = <<S_d, S_j>>
  /\ Equals(edges[<<S_d, S_j>>].width, edges[<<S_j, S_o>>].width) \in Range(exprs)

\* the names that the loop of translate_tjunc leaves in continuous_node_name
\* and dispersed_node_name for the junction name, which has a successor
JunctionRoles(name) ==
  LET s1 == translate_node(Compiling, name, "zero")
  IN PhaseLoop([st |-> s1, cont |-> <<>>, disp |-> <<>>],
               EdgeList(nodeOrder, edgeOrder), name,
               SuccOf(edgeOrder, name)[1])

\* C16: a phase tag matters only at the junction its channel is incident to.
\* Translating a T-junction fails with InvalidPhase only because of a channel
\* incident to it, and the continuous and the dispersed predecessor it picks
\* are the sources of channels into it that carry these tags.
C16_PhaseIsLocal ==
  \A n \in DOMAIN nodes :
    nodes[n].kind = S_tjunction =>
      /\ translate_tjunc(Compiling, n, "zero").err = "InvalidPhase" =>
           \E e \in Incident(n) :
             edges[e].phase \notin {S_continuous, S_dispersed, S_output}
      /\ Outgoing(n) # {} =>
           LET t == JunctionRoles(n) IN
           /\ t.cont # <<>> => <<t.cont, n>> \in Tagged(n, S_continuous)
           /\ t.disp # <<>> => <<t.disp, n>> \in Tagged(n, S_dispersed)

TestPortsDeclared ==
  /\ Building
  /\ DOMAIN nodes = {S_c, S_d, S_o}
  /\ DOMAIN edges = {}
  /\ nodes[S_c].kind = S_input /\ nodes[S_c].min_pressure = PyNum(One)
  /\ nodes[S_d].kind = S_input /\ nodes[S_d].min_pressure = PyNum(One)
  /\ nodes[S_o].kind = S_output

\* C18: the schematic of the test (two input ports with min_pressure = 1, an
\* output port, a T-junction, three tagged channels) is constructed and
\* compiled without an error: after the test's three port() calls its call
\* node(junction_node, 1, 0, kind='tjunc') is accepted, and the solve() of the
\* wired junction does not raise.
C18_TestSchematic ==
  /\ TestPortsDeclared =>
       NodeCall(Graph, S_j, S_tjunc, TestNodeArgs).err = "ok"
  /\ (runs > 0 /\ ProperJunction(S_j)) => lastCall.err = "ok"

\* a stored bound that the user gave: a positive number
UserFixed(x) == x.tag = "num" /\ x.v > 0

\* C19: in a compiled schematic every channel has height < width and its
\* resistance equation in the constraint set, and a channel whose width and
\* height the user fixed has both fixed values asserted.
C19_FixedDimensionsAsserted ==
  (runs > 0 /\ lastCall.err = "ok") =>
    \A e \in DOMAIN edges :
      LET c == edges[e] IN
      /\ LT(c.height, c.width) \in Range(exprs)
      /\ Equals(Symbol(Join3(e[1], e[2], <<"r","e","s">>)),
                calculate_channel_resistance(Compiling, e)[2]) \in Range(exprs)
      /\ (UserFixed(c.min_width) /\ UserFixed(c.min_height)) =>
           /\ Equals(c.width, RealOf(c.min_width)) \in Range(exprs)
           /\ Equals(c.height, RealOf(c.min_height)) \in Range(exprs)

\* the constraint set holds f == y and t == y for some term y: f equals t in
\* every model of the set
ForcedEqual(f, t) ==
  \E x \in Range(exprs) :
    /\ x.op = "Equals"
    /\ x.args[1] = f
    /\ Equals(t, x.args[2]) \in Range(exprs)

\* continuous flow + dispersed flow == output flow, in any of its spellings
FlowConservation(qC, qD, qO) ==
  {Equals(Plus(qC, qD), qO), Equals(Plus(qD, qC), qO),
   Equals(qO, Plus(qC, qD)), Equals(qO, Plus(qD, qC))}

\* C20: the constraint set of a compiled, properly wired T-junction holds the
\* flow conservation of its three channels, continuous flow rate + dispersed
\* flow rate == output flow rate, and does not force the three flow rates to
\* be equal to one another.
C20_FlowConservation ==
  \A n \in DOMAIN nodes :
    (/\ nodes[n].kind = S_tjunction
     /\ ProperJunction(n)
     /\ runs > 0
     /\ lastCall.err = "ok") =>
      \A out \in Outgoing(n), ci \in Tagged(n, S_continuous),
         di \in Tagged(n, S_dispersed) :
        /\ FlowConservation(edges[ci].flow_rate, edges[di].flow_rate,
                            edges[out].flow_rate) \cap Range(exprs) # {}
        /\ ~ \A e \in {out, ci, di} :
               ForcedEqual(edges[e].flow_rate, nodes[n].flow_rate)

\* the four chip-boundary inequalities of each node of ns, in order
RECURSIVE ChipBounds(_)
ChipBounds(ns) ==
  IF ns = <<>> THEN <<>>
  ELSE LET n == nodes[Head(ns)]
       IN <<GE(n.x, R(dim[1])), GE(n.y, R(dim[2])),
            LE(n.x, R(dim[3])), LE(n.y, R(dim[4]))>> \o ChipBounds(Tail(ns))

\* q extends p: p is a prefix of q
Extends(q, p) == Len(q) >= Len(p) /\ SubSeq(q, 1, Len(p)) = p

\* C21: a compilation only appends to the constraint set, and one that
\* completes ends with the four chip-boundary inequalities x >= x_min,
\* y >= y_min, x <= x_max, y <= y_max of every node, appended after all the
\* constraints of the node and channel strategies.
C21_ChipBoundsLast ==
  [][runs' # runs =>
       /\ Extends(exprs', exprs)
       /\ lastCall'.err = "ok" =>
            LET k == 4 * Len(nodeOrder)
                n == Len(exprs')
            IN /\ n >= Len(exprs) + k
               /\ SubSeq(exprs', n - k + 1, n) = ChipBounds(nodeOrder)]_vars

\* the wired T-junction was compiled twice, and the constraint set ends with
\* the chip bounds of its four nodes
C21_Witness ==
  /\ runs = 2
  /\ lastCall.err = "ok"
  /\ ProperJunction(S_j)
  /\ Len(exprs) > 16
  /\ SubSeq(exprs, Len(exprs) - 15, Len(exprs)) = ChipBounds(nodeOrder)

\* the nodes that channels lead to from the nodes of S, in at most k steps
RECURSIVE ReachFrom(_, _)
ReachFrom(S, k) ==
  IF k = 0 THEN S
  ELSE ReachFrom(S \cup {e[2] : e \in {d \in DOMAIN edges : d[1] \in S}}, k - 1)

\* the graph holds a directed cycle (a self-loop is one)
HasCycle ==
  \E e \in DOMAIN edges : e[1] \in ReachFrom({e[2]}, Cardinality(DOMAIN nodes))

RECURSIVE Before(_, _)
Before(ns, name) ==
  IF ns = <<>> \/ Head(ns) = name THEN <<>>
  ELSE <<Head(ns)>> \o Before(Tail(ns), name)

\* the positions in self.exprs of the constraints that the strategy of the
\* node name appends in a translation that no exception ends: <<first, last>>
StrategySpan(name) ==
  LET pre == NodeLoop(Compiling, Before(nodeOrder, name), "zero")
      post == NodeStrategy(pre, name, "zero")
  IN <<Len(pre.exprs) + 1, Len(post.exprs)>>

\* x fixes or bounds var: var == literal, var >= literal or var > literal
FixesOrBounds(x, var) ==
  /\ x.op \in {"Equals", "GE", "GT"}
  /\ x.args[1] = var
  /\ x.args[2].op = "Real"

\* C23: the constraints that the T-junction strategy appends for a junction J
\* begin with the plain-node constraints of J: the fixed-or-bounded constraints
\* of its x and y, and those of its pressure, flow rate, viscosity and
\* density, all of them before the first junction-specific constraint.
C23_PlainNodeFirst ==
  [][(runs = 0 /\ runs' = 1 /\ lastCall'.err = "ok") =>
       \A n \in DOMAIN nodes :
         nodes[n].kind = S_tjunction =>
           LET span == StrategySpan(n)
               seg == SubSeq(exprs', span[1], span[2])
               j == nodes[n]
           IN /\ Len(seg) >= 6
              /\ FixesOrBounds(seg[1], j.x)
              /\ FixesOrBounds(seg[2], j.y)
              /\ \A var \in {j.pressure, j.flow_rate, j.viscosity, j.density} :
                   \E i \in 3..6 : FixesOrBounds(seg[i], var)]_vars

\* the coordinates of a node: <<variable, stored value>>
Coords(n) == {<<nodes[n].x, nodes[n].min_x>>, <<nodes[n].y, nodes[n].min_y>>}

\* C24: in a compiled schematic, for every node and for its x and its y
\* independently: a coordinate that the user gave is forced equal to the
\* given value; one that was left out is bounded by >= 0 and is not equated
\* with a literal.
C24_CoordinatesIndependent ==
  (runs > 0 /\ lastCall.err = "ok") =>
    \A n \in DOMAIN nodes : \A c \in Coords(n) :
      IF c[2].tag = "num"
      THEN Equals(c[1], RealOf(c[2])) \in Range(exprs)
      ELSE /\ GE(c[1], R(0)) \in Range(exprs)
           /\ ~ \E x \in Range(exprs) :
                  x.op = "Equals" /\ x.args[1] = c[1] /\ x.args[2].op = "Real"

\* C25: in a compiled schematic every channel has the Pythagorean identity
\* length^2 == (x_from - x_to)^2 + (y_from - y_to)^2 of its end nodes in the
\* constraint set, and one bound on its length: length == the user's value
\* where min_length was given, length > 0 where it was left out.
C25_LengthFixedOrPositive ==
  (runs > 0 /\ lastCall.err = "ok") =>
    \A e \in DOMAIN edges :
      LET c == edges[e] IN
      /\ pythagorean_length(Compiling, e) \in Range(exprs)
      /\ UserFixed(c.min_length) =>
           Equals(c.length, RealOf(c.min_length)) \in Range(exprs)
      /\ c.min_length = StoreEdge(Unset) =>
           GT(c.length, R(0)) \in Range(exprs)

\* flow_rate = A * sqrt(2 * pressure / density) for the port n, with A the
\* sum over the channels out of n of width * height, in either order of the
\* product
DerivedFlowRates(n) ==
  LET ss == SuccOf(edgeOrder, n)
      root == Pow(Div(Times(R(2), nodes[n].pressure), nodes[n].density),
                  RealC("0.5"))
  IN {Times(PlusN(areas), root) :
        areas \in {as \in [1..Len(ss) -> UNION {{Times(edges[e].width, edges[e].height),
                                                  Times(edges[e].height, edges[e].width)} :
                                                 e \in DOMAIN edges}] :
                     \A i \in 1..Len(ss) :
                       LET c == edges[<<n, ss[i]>>]
                       IN as[i] \in {Times(c.width, c.height), Times(c.height, c.width)}}}

\* C26: in a compiled schematic, an input port that no channel leads into has
\* its flow rate equated with the derived A * sqrt(2 * pressure / density)
\* only where the user left the flow rate out; a flow rate that the user gave
\* is asserted by equality and is not equated with a derived product as well.
C26_DerivedFlowOnlyWhenUnset ==
  (runs > 0 /\ lastCall.err = "ok") =>
    \A n \in DOMAIN nodes :
      (nodes[n].kind = S_input /\ Incoming(n) = {} /\ Outgoing(n) # {}) =>
        IF UserFixed(nodes[n].min_flow_rate)
        THEN /\ Equals(nodes[n].flow_rate, RealOf(nodes[n].min_flow_rate))
                  \in Range(exprs)
             /\ ~ \E x \in Range(exprs) :
                    x.op = "Equals" /\ x.args[1] = nodes[n].flow_rate
                      /\ x.args[2].op = "Times"
        ELSE \E d \in DerivedFlowRates(n) :
               Equals(nodes[n].flow_rate, d) \in Range(exprs)

\* the variables name_pressure and name_flow_rate of a node
PressureOf(name) == Symbol(Suffix(name, <<"p","r","e","s","s","u","r","e">>))
FlowRateOf(name) == Symbol(Suffix(name, <<"f","l","o","w","_","r","a","t","e">>))

\* the constraint set equates var with a sum
EquatedWithSum(var) ==
  \E x \in Range(exprs) :
    x.op = "Equals" /\ x.args[1] = var /\ x.args[2].op = "Plus"

\* the constraint set equates var with the pressure at the end of a channel,
\* pressure_in - resistance * flow_rate
EquatedWithOutputPressure(var) ==
  \E x \in Range(exprs) :
    x.op = "Equals" /\ x.args[1] = var /\ x.args[2].op = "Minus"

\* C27: in a compiled schematic a node with k >= 1 inbound channels has its
\* pressure equated with the sum of their k output pressures and, if it is an
\* output port whose flow rate was left out, its flow rate with the sum of
\* their k flow rates (k = 1: with the one output pressure, the one flow
\* rate); a node with no inbound channel has no such constraint.
C27_SumOverInbound ==
  (runs > 0 /\ lastCall.err = "ok") =>
    \A n \in DOMAIN nodes :
      LET k == Cardinality(Incoming(n))
          sumsFlow == nodes[n].kind = S_output /\ ~Truthy(nodes[n].min_flow_rate)
      IN /\ k = 0 => /\ ~EquatedWithSum(PressureOf(n))
                     /\ ~EquatedWithOutputPressure(PressureOf(n))
         /\ k = 1 => /\ EquatedWithOutputPressure(PressureOf(n))
                     /\ sumsFlow =>
                          \A e \in Incoming(n) :
                            ForcedEqual(FlowRateOf(n), edges[e].flow_rate)
         /\ k > 1 => /\ EquatedWithSum(PressureOf(n))
                     /\ sumsFlow => EquatedWithSum(FlowRateOf(n))

\* the terms that the equalities of the constraint set force equal to a term
\* of S, by chains of at most k equalities
RECURSIVE EqualTo(_, _)
EqualTo(S, k) ==
  IF k = 0 THEN S
  ELSE LET eqs == {x \in Range(exprs) : x.op = "Equals"}
           T == S \cup {x.args[2] : x \in {y \in eqs : y.args[1] \in S}}
                  \cup {x.args[1] : x \in {y \in eqs : y.args[2] \in S}}
       IN IF T = S THEN S ELSE EqualTo(T, k - 1)

\* every term forced equal to t
EqualClass(t) == EqualTo({t}, Len(exprs))

\* the equalities of the constraint set force t equal to two different
\* numbers: no assignment satisfies the set
Contradictory(t) ==
  \E r1 \in EqualClass(t), r2 \in EqualClass(t) :
    r1.op = "Real" /\ r2.op = "Real" /\ r1.val # r2.val

\* the nodes with a channel into name
Predecessors(name) == {e[1] : e \in Incoming(name)}

Prime == 101
PiValue == 17
Mod(n) == ((n % Prime) + Prime) % Prime
Inverse ==
  [x \in 0..(Prime - 1) |->
     IF x = 0 THEN 0 ELSE CHOOSE y \in 1..(Prime - 1) : (x * y) % Prime = 1]
FAdd(a, b) == (a + b) % Prime
FSub(a, b) == Mod(a - b)
FMul(a, b) == (a * b) % Prime
FDiv(a, b) == (a * Inverse[b]) % Prime
Root(a) == (a * a * a) % Prime

\* the value of a constant Real(<float or fraction literal>) of the source
Literal(text) ==
  CASE text = "math.pi" -> PiValue
    [] text = "0.1" -> FDiv(1, 10)
    [] text = "0.5" -> FDiv(1, 2)
    [] text = "3/8" -> FDiv(3, 8)
    [] text = "0.63" -> FDiv(63, 100)
    [] OTHER -> 0

RECURSIVE FSum(_)
FSum(q) == IF q = <<>> THEN 0 ELSE FAdd(Head(q), FSum(Tail(q)))

\* the value of the term t where env gives the values of its variables
RECURSIVE Eval(_, _)
Eval(t, env) ==
  CASE t.op = "Symbol" -> IF t.name \in DOMAIN env THEN env[t.name] ELSE Prime - 1
    [] t.op = "Real" -> FDiv(Mod(t.val), Scale)
    [] t.op = "RealC" -> Literal(t.name[1])
    [] t.op = "Plus" -> FSum([i \in 1..Len(t.args) |-> Eval(t.args[i], env)])
    [] t.op = "Minus" -> FSub(Eval(t.args[1], env), Eval(t.args[2], env))
    [] t.op = "Times" -> FMul(Eval(t.args[1], env), Eval(t.args[2], env))
    [] t.op = "Div" -> FDiv(Eval(t.args[1], env), Eval(t.args[2], env))
    [] t.op = "Pow" ->
         LET b == Eval(t.args[1], env)
             ex == t.args[2]
         IN IF ex = RealC("0.5") THEN Root(b)
            ELSE IF ex = R(2) THEN FMul(b, b)
            ELSE IF ex = R(3) THEN FMul(b, FMul(b, b))
            ELSE IF ex = R(0 - 1) THEN Inverse[b]
            ELSE 0
    [] OTHER -> 0

\* the closed form of the droplet volume (DOI:10.1039/c002625e):
\*   v_fill      = 3 pi/8 - (pi/2)(1 - pi/4)(h/w)
\*   hw_parallel = h w / (h + w)
\*   r_pinch     = w + (wIn - (hw_parallel - eps))
\*                   + sqrt(2 (wIn - hw_parallel)(w - hw_parallel))
\*   r_fill      = w
\*   alpha       = (1 - pi/4) / (1 - q_gutter)
\*                   [(r_pinch/w)^2 - (r_fill/w)^2 + (pi/4)(r_pinch/w - r_fill/w)(h/w)]
\*   volume      = h w^2 (v_fill + alpha (qD/qC)),  q_gutter = 0.1
ClosedFormVolume(h, w, wIn, eps, qD, qC) ==
  LET pi == PiValue
      q_gutter == FDiv(1, 10)
      quarter == FDiv(pi, 4)
      v_fill == FSub(FDiv(FMul(3, pi), 8),
                     FMul(FMul(FDiv(pi, 2), FSub(1, quarter)), FDiv(h, w)))
      hw_parallel == FDiv(FMul(h, w), FAdd(h, w))
      r_pinch == FAdd(FAdd(w, FSub(wIn, FSub(hw_parallel, eps))),
                      Root(FMul(2, FMul(FSub(wIn, hw_parallel),
                                        FSub(w, hw_parallel)))))
      r_fill == w
      rp == FDiv(r_pinch, w)
      rf == FDiv(r_fill, w)
      alpha == FMul(FDiv(FSub(1, quarter), FSub(1, q_gutter)),
                    FAdd(FSub(FMul(rp, rp), FMul(rf, rf)),
                         FMul(quarter, FMul(FSub(rp, rf), FDiv(h, w)))))
  IN FMul(FMul(h, FMul(w, w)), FAdd(v_fill, FMul(alpha, FDiv(qD, qC))))

\* the values that the droplet volume is evaluated at
DropletInputs ==
  [h : 1..MaxDim, w : 1..MaxDim, wIn : 1..MaxDim, eps : 0..1,
   qD : 1..2, qC : 1..2]

\* C29: the constraint set of a compiled, properly wired T-junction equates
\* the droplet_volume of the output channel with a term whose value is that
\* of the closed form h w^2 (v_fill + alpha qD/qC), q_gutter = 0.1, at
\* h = output channel height, w = output channel width, wIn = dispersed
\* channel width, qD = dispersed flow rate, qC = continuous flow rate.
C29_DropletVolumeClosedForm ==
  \A n \in DOMAIN nodes :
    (/\ nodes[n].kind = S_tjunction
     /\ ProperJunction(n)
     /\ runs > 0
     /\ lastCall.err = "ok") =>
      \A out \in Outgoing(n), ci \in Tagged(n, S_continuous),
         di \in Tagged(n, S_dispersed) :
        \E x \in Range(exprs) :
          /\ x.op = "Equals"
          /\ x.args[1] = edges[out].droplet_volume
          /\ \A v \in DropletInputs :
               LET env == (edges[out].height.name :> v.h)
                            @@ (edges[out].width.name :> v.w)
                            @@ (edges[di].width.name :> v.wIn)
                            @@ (S_epsilon :> v.eps)
                            @@ (nodes[di[1]].flow_rate.name :> v.qD)
                            @@ (nodes[ci[1]].flow_rate.name :> v.qC)
               IN Eval(x.args[2], env)
                    = ClosedFormVolume(v.h, v.w, v.wIn, v.eps, v.qD, v.qC)

\* a properly wired junction j was compiled and the droplet volume of (j, o)
\* is equated with a product
C29_Witness ==
  /\ runs > 0
  /\ lastCall.err = "ok"
  /\ S_j \in DOMAIN nodes
  /\ ProperJunction(S_j)
  /\ \E x \in Range(exprs) :
       /\ x.op = "Equals"
       /\ x.args[1] = Symbol(Join3(S_j, S_o, <<"D","v","o","l">>))
       /\ x.args[2].op = "Times"

\* math.cos(math.radians(0.5))**2 = 0.99992385..., to five digits, as a
\* fraction.  No two vectors of the grid have a squared cosine between this
\* and 1: on the grid the rounding decides nothing.
CosSquaredCrit == [num |-> 99992, den |-> 100000]

\* the value of a term of sums, differences, products and squares where env
\* gives integer values to its variables
RECURSIVE IntValue(_, _)
IntValue(t, env) ==
  CASE t.op = "Symbol" -> env[t.name]
    [] t.op = "Plus" -> IntValue(t.args[1], env) + IntValue(t.args[2], env)
    [] t.op = "Minus" -> IntValue(t.args[1], env) - IntValue(t.args[2], env)
    [] t.op = "Times" -> IntValue(t.args[1], env) * IntValue(t.args[2], env)
    [] t.op = "Pow" /\ t.args[2] = R(2) ->
         IntValue(t.args[1], env) * IntValue(t.args[1], env)
    [] OTHER -> 0

\* the placement env satisfies the constraint x, crit <= numerator / denominator
\* with a positive denominator
Satisfied(x, env) ==
  LET n == IntValue(x.args[2].args[1], env)
      d == IntValue(x.args[2].args[2], env)
  IN /\ x.op = "LE"
     /\ x.args[2].op = "Div"
     /\ d > 0
     /\ CosSquaredCrit.num * d <= CosSquaredCrit.den * n

\* the constraint that translate_tjunc appends for the nodes t[1], t[2], t[3]
Point(name) == <<nodes[name].x, nodes[name].y>>
AngleConstraint(t) ==
  LE(RealC("math.cos(math.radians(0.5))**2"),
     cosine_law_crit_angle(Point(t[1]), Point(t[2]), Point(t[3])))

\* the three triples of the junction n with the channels ci, di and out
\* (continuous, dispersed, output)
AngleTriples(n, ci, di, out) ==
  {<<ci[1], n, di[1]>>, <<ci[1], n, out[2]>>, <<out[2], n, di[1]>>}

\* the placements of the three nodes of t on the grid
Placements(t) ==
  [UNION {{nodes[t[i]].x.name, nodes[t[i]].y.name} : i \in 1..3} -> 0..MaxCoord]

\* the vector from the node `from` to the node `to` in the placement env
Vec(env, from, to) ==
  <<env[nodes[to].x.name] - env[nodes[from].x.name],
    env[nodes[to].y.name] - env[nodes[from].y.name]>>
Dot(a, b) == a[1] * b[1] + a[2] * b[2]
Neg(a) == <<0 - a[1], 0 - a[2]>>

\* the angle between the nonzero vectors a and b does not exceed the critical
\* angle: its cosine is at least cos(0.5 degrees)
AngleWithinCrit(a, b) ==
  /\ Dot(a, b) >= 0
  /\ CosSquaredCrit.num * Dot(a, a) * Dot(b, b)
       <= CosSquaredCrit.den * Dot(a, b) * Dot(a, b)

\* the statement P(t, env, a, b) holds of every triple t of every compiled,
\* properly wired T-junction and of every placement env that puts neither
\* end node on the junction, a and b the vectors from the junction
AnglesOfJunctions(P(_, _, _, _)) ==
  \A n \in DOMAIN nodes :
    (/\ nodes[n].kind = S_tjunction
     /\ ProperJunction(n)
     /\ runs > 0
     /\ lastCall.err = "ok") =>
      \A out \in Outgoing(n), ci \in Tagged(n, S_continuous),
         di \in Tagged(n, S_dispersed) :
        \A t \in AngleTriples(n, ci, di, out) :
          /\ AngleConstraint(t) \in Range(exprs)
          /\ \A env \in Placements(t) :
               LET a == Vec(env, t[2], t[1])
                   b == Vec(env, t[2], t[3])
               IN (a # <<0, 0>> /\ b # <<0, 0>>) => P(t, env, a, b)

============================================================================
